---- MODULE Spec2Model ----
(***************************************************************************)
(* Stroke capture and per-frame redraw of the OpenGL pencil example        *)
(* (examples/GLFW/.../GLFW_VSC/main.cpp).                                  *)
(*                                                                         *)
(* State: the file-scope globals g_win_w, g_win_h, g_mouse_down, g_strokes *)
(* and g_current, the window's should-close flag, the position of main()   *)
(* in its loop, and the draw calls issued in the current frame.            *)
(*                                                                         *)
(* Numbers.  Cursor coordinates are doubles; a coordinate is modelled as   *)
(* the dyadic rational <<n, d>> = n/d pixels (d a power of two).  A float  *)
(* is <<"fin", n>> = n/Scale, or <<"nan", 0>>, <<"inf", 1>>, <<"inf", -1>>.*)
(* The cursor positions and viewport sizes the model draws from are chosen *)
(* so that sx / g_win_w is a multiple of 1/(2*Scale): on such inputs the   *)
(* IEEE-754 division, the multiply by 2.0, the subtraction and the cast to *)
(* float are all exact, and the float comparison against 1e-6f has the     *)
(* outcome of the exact one (rounding is monotone, and the multiples of    *)
(* 1/Scale^2 next to 1e-6f are floats).  ExactGrid states this condition.  *)
(***************************************************************************)
EXTENDS Integers, Sequences, FiniteSets, TLC

\* g_win_w .. g_current  the globals of lines 87-98
\* shouldClose            the window's should-close flag
\* pc                     where main() is: "poll" (inside glfwPollEvents),
\*                        "render", "swap", "cleanup", "exit", and
\*                        before the loop "glfwInit", "createWindow",
\*                        "loadGL", "register", "program", "setup"
\* draws                  the draw calls issued so far in the current frame
\* status                 <<>> while running, <<code>> once main has returned
\* history variables, written but never read by the program's steps:
\* ev                     the kind of the last step
\* phase                  "open" from a left press to the next left release,
\*                        "cleared" once the clear command ran in between,
\*                        "released" / "released_cleared" after that release
\* gN, gRec               cursor moves delivered / points recorded by them
\*                        since the press
\* gPress                 <<the point recorded by the press>>
VARIABLES g_win_w, g_win_h, g_mouse_down, g_strokes, g_current,
          shouldClose, pc, draws, status,
          ev, phase, gN, gRec, gPress

\* start-up of main() (lines 141-186):
\* diag                   the messages written to std::cerr, in order
\* callbacks              the three input callbacks are registered
VARIABLES diag, callbacks

boot == <<diag, callbacks>>

\* the Qt example (MainWindow and SecondWindow):
\* secondWindow           MainWindow::secondWindow: <<>> is nullptr, <<i>>
\*                        points to the i-th SecondWindow constructed
\* instances              number of SecondWindow objects constructed so far
\*                        (none is ever deleted)
\* qVisible               the SecondWindow objects that are shown
\* qTop, qActive          the window on top of the stack and the active one:
\*                        0 the main window, i > 0 the i-th SecondWindow,
\*                        -1 a window of another program
\* qMainAlive             the MainWindow has not been destroyed
\* qCalls                 history: for each openSecondWindow so far, the
\*                        object it showed, raised and activated
VARIABLES secondWindow, instances, qVisible, qTop, qActive, qMainAlive, qCalls

qt == <<secondWindow, instances, qVisible, qTop, qActive, qMainAlive, qCalls>>

vars == <<g_win_w, g_win_h, g_mouse_down, g_strokes, g_current,
          shouldClose, pc, draws, status, ev, phase, gN, gRec, gPress,
          boot, qt>>

(* ---- bounds of the explored environment ------------------------------- *)
\* total number of points held in g_strokes and g_current
MaxPts == 3
\* cursor-move events delivered during one gesture
MaxMoves == 2
\* clicks of the button of the Qt main window
MaxClicks == 20

(* ---- program constants ------------------------------------------------ *)
\* int g_win_w = 800, g_win_h = 600;
InitW == 800
InitH == 600
\* the float literal 1e-6f is EpsNum * 2^-EpsExp (0x358637BD)
EpsNum == 8796093
EpsExp == 43
\* the button and action codes mouse_button_cb is called with
GLFW_MOUSE_BUTTON_LEFT == "GLFW_MOUSE_BUTTON_LEFT"
GLFW_MOUSE_BUTTON_RIGHT == "GLFW_MOUSE_BUTTON_RIGHT"
GLFW_RELEASE == "GLFW_RELEASE"
GLFW_PRESS == "GLFW_PRESS"

(* ---- float arithmetic ------------------------------------------------- *)
\* floats are counted in units of 1/Scale, the quotient sx / g_win_w in
\* units of 1/DScale
Scale == 2^12
DScale == 2 * Scale

Fin(n) == <<"fin", n>>
NaN == <<"nan", 0>>
PInf == <<"inf", 1>>
NInf == <<"inf", -1>>
IsFin(a) == a[1] = "fin"
IsNaN(a) == a[1] = "nan"
IsInf(a) == a[1] = "inf"

\* struct Vec2 { float x, y; }
Vec2(x, y) == [x |-> x, y |-> y]

\* sx / g_win_w in double: the int is converted to double; x/0 is an
\* infinity of the sign of x and 0/0 is a NaN
FDiv(s, w) ==
    IF w = 0
    THEN IF s[1] = 0 THEN NaN ELSE IF s[1] > 0 THEN PInf ELSE NInf
    ELSE Fin((s[1] * (DScale \div s[2])) \div w)

\* a - b on floats
FSub(a, b) ==
    IF IsNaN(a) \/ IsNaN(b) THEN NaN
    ELSE IF IsInf(a) /\ IsInf(b) THEN (IF a[2] = b[2] THEN NaN ELSE a)
    ELSE IF IsInf(a) THEN a
    ELSE IF IsInf(b) THEN <<"inf", 0 - b[2]>>
    ELSE Fin(a[2] - b[2])

\* a * a on floats; the result counts units of 1/Scale^2
FSq(a) ==
    IF IsNaN(a) THEN NaN
    ELSE IF IsInf(a) THEN PInf
    ELSE Fin(a[2] * a[2])

\* a + b for two squares (neither is negative)
FAddSq(a, b) ==
    IF IsNaN(a) \/ IsNaN(b) THEN NaN
    ELSE IF IsInf(a) \/ IsInf(b) THEN PInf
    ELSE Fin(a[2] + b[2])

\* 1e-6f in units of 1/Scale^2, rounded down: for an integer n,
\* n / Scale^2 > 1e-6f  iff  n > EpsUnits
EpsUnits == EpsNum \div 2^(EpsExp - 24)

\* s > 1e-6f for s in units of 1/Scale^2; a comparison with a NaN is false
GtEps(s) ==
    IF IsNaN(s) THEN FALSE
    ELSE IF IsInf(s) THEN s[2] > 0
    ELSE s[2] > EpsUnits

\* inline Vec2 wnd_to_ndc(double sx, double sy), reading the viewport w x h
wnd_to_ndc_in(sx, sy, w, h) ==
    LET qx == FDiv(sx, w)
        qy == FDiv(sy, h)
        x == IF IsFin(qx) THEN Fin(qx[2] - Scale) ELSE qx
        y == IF IsFin(qy) THEN Fin(Scale - qy[2])
             ELSE IF IsInf(qy) THEN <<"inf", 0 - qy[2]>> ELSE NaN
    IN  Vec2(x, y)

wnd_to_ndc(sx, sy) == wnd_to_ndc_in(sx, sy, g_win_w, g_win_h)

\* the distance test against 0 instead of 1e-6f
FarEnough_Zero(p, last) ==
    LET dx == FSub(p.x, last.x)
        dy == FSub(p.y, last.y)
        s == FAddSq(FSq(dx), FSq(dy))
    IN  IF IsNaN(s) THEN FALSE ELSE IF IsInf(s) THEN TRUE ELSE s[2] > 0

\* dx * dx + dy * dy > 1e-6f
FarEnough(p, last) ==
    LET dx == FSub(p.x, last.x)
        dy == FSub(p.y, last.y)
    IN  GtEps(FAddSq(FSq(dx), FSq(dy)))

(* ---- inputs ----------------------------------------------------------- *)
\* cursor positions (pixels) on the diagonal of the initial window: its
\* origin, the point 1/2^12 of the way along (closer to the origin than the
\* threshold allows at the initial size) and the point 1/2^11 of the way
\* along (far enough from the origin at every size)
Origin == <<<<0, 1>>, <<0, 1>>>>
Near == <<<<InitW, 2^12>>, <<InitH, 2^12>>>>
Far == <<<<InitW, 2^11>>, <<InitH, 2^11>>>>
CursorPts == {Origin, Near, Far}

\* framebuffer sizes delivered by the window system: the initial size, half
\* of it, and the 0 x 0 of a minimised window
Dims == {<<InitW, InitH>>, <<InitW \div 2, InitH \div 2>>, <<0, 0>>}

Buttons == {GLFW_MOUSE_BUTTON_LEFT, GLFW_MOUSE_BUTTON_RIGHT}
ButtonActions == {GLFW_PRESS, GLFW_RELEASE}

\* every quotient the model forms is exact in units of 1/DScale
ExactGrid ==
    \A c \in CursorPts : \A d \in Dims : \A i \in 1..2 :
        /\ DScale % c[i][2] = 0
        /\ d[i] # 0 => (c[i][1] * (DScale \div c[i][2])) % d[i] = 0

(* ---- helpers ---------------------------------------------------------- *)
RECURSIVE TotalPts(_, _)
TotalPts(ss, i) ==
    IF i > Len(ss) THEN 0 ELSE Len(ss[i]) + TotalPts(ss, i + 1)

Stored == TotalPts(g_strokes, 1) + Len(g_current)

Last(s) == s[Len(s)]

(* ---- initial state ---------------------------------------------------- *)
\* the globals as initialised at lines 87-98, main() about to poll events
\* for the first time after a start-up without a diagnostic, with the
\* window's should-close flag clear
\* MainWindow::MainWindow: secondWindow(nullptr), the button is made the
\* central widget and its clicked signal connected to openSecondWindow
MainWindow_Constructed ==
    /\ secondWindow = <<>>
    /\ instances = 0
    /\ qVisible = {}
    /\ qTop = 0
    /\ qActive = 0
    /\ qMainAlive = TRUE
    /\ qCalls = <<>>

Init ==
    /\ g_win_w = InitW
    /\ g_win_h = InitH
    /\ g_mouse_down = FALSE
    /\ g_strokes = <<>>
    /\ g_current = <<>>
    /\ shouldClose = FALSE
    /\ pc = "poll"
    /\ draws = <<>>
    /\ status = <<>>
    /\ ev = "init"
    /\ phase = "idle"
    /\ gN = 0
    /\ gRec = 0
    /\ gPress = <<>>
    /\ diag = <<>>
    /\ callbacks = TRUE
    /\ MainWindow_Constructed

(* ---- callbacks, run by glfwPollEvents --------------------------------- *)
\* the gesture bookkeeping of a left-button release
ReleasedPhase ==
    IF phase = "open" THEN "released"
    ELSE IF phase = "cleared" THEN "released_cleared"
    ELSE "idle"

\* StartStroke without g_current.clear()
StartStroke_NoClear(mx, my) ==
    /\ g_mouse_down' = TRUE
    /\ g_current' = Append(g_current, wnd_to_ndc(mx, my))
    /\ UNCHANGED g_strokes

\* StartStroke that converts with the initial window size
StartStroke_InitDims(mx, my) ==
    /\ g_mouse_down' = TRUE
    /\ g_current' = <<wnd_to_ndc_in(mx, my, InitW, InitH)>>
    /\ UNCHANGED g_strokes

\* lines 105-109: g_mouse_down = true; g_current.clear();
\* g_current.push_back(wnd_to_ndc(mx, my)), where <<mx, my>> is what
\* glfwGetCursorPos returns
StartStroke(mx, my) ==
    /\ g_mouse_down' = TRUE
    /\ g_current' = <<wnd_to_ndc(mx, my)>>
    /\ UNCHANGED g_strokes

\* FinishStroke that leaves g_current as it is after the push
FinishStroke_KeepCurrent ==
    /\ g_mouse_down' = FALSE
    /\ IF g_current # <<>>
       THEN /\ g_strokes' = Append(g_strokes, g_current)
            /\ UNCHANGED g_current
       ELSE UNCHANGED <<g_strokes, g_current>>

\* FinishStroke without the test for content
FinishStroke_Always ==
    /\ g_mouse_down' = FALSE
    /\ g_strokes' = Append(g_strokes, g_current)
    /\ g_current' = <<>>

\* lines 112-117: g_mouse_down = false; a non-empty g_current is pushed to
\* g_strokes and cleared
FinishStroke ==
    /\ g_mouse_down' = FALSE
    /\ IF g_current # <<>>
       THEN /\ g_strokes' = Append(g_strokes, g_current)
            /\ g_current' = <<>>
       ELSE UNCHANGED <<g_strokes, g_current>>

\* void mouse_button_cb(win, button, action, mods).  A press is explored
\* while the completed strokes leave room for its point (MaxPts).
mouse_button_cb(button, action, mx, my) ==
    /\ pc = "poll"
    /\ IF button = GLFW_MOUSE_BUTTON_LEFT /\ action = GLFW_PRESS
       THEN /\ TotalPts(g_strokes, 1) < MaxPts
            /\ StartStroke(mx, my)
            /\ ev' = "press"
            /\ phase' = "open"
            /\ gN' = 0
            /\ gRec' = 0
            /\ gPress' = <<wnd_to_ndc(mx, my)>>
       ELSE IF button = GLFW_MOUSE_BUTTON_LEFT /\ action = GLFW_RELEASE
       THEN /\ FinishStroke
            /\ ev' = "release"
            /\ phase' = ReleasedPhase
            /\ IF phase = "open"
               THEN UNCHANGED <<gN, gRec, gPress>>
               ELSE gN' = 0 /\ gRec' = 0 /\ gPress' = <<>>
       ELSE /\ ev' = "other"
            /\ UNCHANGED <<g_mouse_down, g_strokes, g_current,
                           phase, gN, gRec, gPress>>
    /\ UNCHANGED <<g_win_w, g_win_h, shouldClose, pc, draws, status>>
    /\ UNCHANGED <<boot, qt>>

\* lines 125-130: the point is recorded when g_current is empty or when it
\* is far enough from the last recorded one
Record(p) ==
    IF g_current = <<>>
    THEN g_current' = <<p>>
    ELSE IF FarEnough(p, Last(g_current))
         THEN g_current' = Append(g_current, p)
         ELSE UNCHANGED g_current

\* cursor_pos_cb without the test of g_mouse_down
cursor_pos_cb_NoHeldTest(x, y) ==
    /\ pc = "poll"
    /\ gN < MaxMoves
    /\ Record(wnd_to_ndc(x, y))
    /\ TotalPts(g_strokes, 1) + Len(g_current') <= MaxPts
    /\ gN' = gN + 1
    /\ gRec' = gRec + (Len(g_current') - Len(g_current))
    /\ ev' = "move"
    /\ UNCHANGED <<g_win_w, g_win_h, g_mouse_down, g_strokes, shouldClose,
                   pc, draws, status, phase, gPress>>
    /\ UNCHANGED <<boot, qt>>

\* void cursor_pos_cb(win, x, y).  With the button held, MaxMoves moves
\* per gesture are explored, and a move that records a point only while
\* there is room for it (MaxPts).
cursor_pos_cb(x, y) ==
    /\ pc = "poll"
    /\ IF g_mouse_down
       THEN /\ gN < MaxMoves
            /\ Record(wnd_to_ndc(x, y))
            /\ TotalPts(g_strokes, 1) + Len(g_current') <= MaxPts
            /\ gN' = gN + 1
            /\ gRec' = gRec + (Len(g_current') - Len(g_current))
       ELSE UNCHANGED <<g_current, gN, gRec>>
    /\ ev' = "move"
    /\ UNCHANGED <<g_win_w, g_win_h, g_mouse_down, g_strokes, shouldClose,
                   pc, draws, status, phase, gPress>>
    /\ UNCHANGED <<boot, qt>>

\* framebuffer_size_cb that also restarts the stroke in progress
framebuffer_size_cb_Restart(w, h) ==
    /\ pc = "poll"
    /\ g_win_w' = w
    /\ g_win_h' = h
    /\ g_current' = <<>>
    /\ ev' = "resize"
    /\ UNCHANGED <<g_mouse_down, g_strokes, shouldClose, pc,
                   draws, status, phase, gN, gRec, gPress>>
    /\ UNCHANGED <<boot, qt>>

\* void framebuffer_size_cb(win, w, h)
framebuffer_size_cb(w, h) ==
    /\ pc = "poll"
    /\ g_win_w' = w
    /\ g_win_h' = h
    /\ ev' = "resize"
    /\ UNCHANGED <<g_mouse_down, g_strokes, g_current, shouldClose, pc,
                   draws, status, phase, gN, gRec, gPress>>
    /\ UNCHANGED <<boot, qt>>

(* ---- main loop -------------------------------------------------------- *)
\* the clear command without g_current.clear()
ClearCanvas_StrokesOnly ==
    /\ g_strokes' = <<>>
    /\ UNCHANGED g_current

\* line 194: g_strokes.clear(); g_current.clear();
ClearCanvas ==
    /\ g_strokes' = <<>>
    /\ g_current' = <<>>

\* lines 190-196: glfwPollEvents returns; ESC and C are sampled with
\* glfwGetKey (esc, c); glClear starts the frame
KeyboardHandling(esc, c) ==
    /\ pc = "poll"
    /\ shouldClose' = (shouldClose \/ esc)
    /\ IF c
       THEN /\ ClearCanvas
            /\ ev' = "clear"
            /\ phase' = (IF phase \in {"open", "cleared"} THEN "cleared" ELSE "idle")
            /\ gN' = 0
            /\ gRec' = 0
            /\ gPress' = <<>>
       ELSE /\ ev' = "keys"
            /\ UNCHANGED <<g_strokes, g_current, phase, gN, gRec, gPress>>
    /\ draws' = <<>>
    /\ pc' = "render"
    /\ UNCHANGED <<g_win_w, g_win_h, g_mouse_down, status>>
    /\ UNCHANGED <<boot, qt>>

\* the loop over g_strokes without the size test
DrawStrokes_NoSkip(ss, i) == SubSeq(ss, i, Len(ss))

\* for (const auto& s : g_strokes) { if (s.size() < 2) continue; ...draw }
RECURSIVE DrawStrokes(_, _)
DrawStrokes(ss, i) ==
    IF i > Len(ss) THEN <<>>
    ELSE IF Len(ss[i]) < 2 THEN DrawStrokes(ss, i + 1)
    ELSE <<ss[i]>> \o DrawStrokes(ss, i + 1)

\* the size test of the in-progress stroke off by one
DrawCurrent_One(cur) == IF Len(cur) >= 1 THEN <<cur>> ELSE <<>>

\* if (g_current.size() >= 2) { ...draw }
DrawCurrent(cur) == IF Len(cur) >= 2 THEN <<cur>> ELSE <<>>

\* a render pass that empties g_current once it has drawn it
RenderPass_Consume ==
    /\ pc = "render"
    /\ draws' = DrawStrokes(g_strokes, 1) \o DrawCurrent(g_current)
    /\ g_current' = <<>>
    /\ ev' = "render"
    /\ pc' = "swap"
    /\ UNCHANGED <<g_win_w, g_win_h, g_mouse_down, g_strokes,
                   shouldClose, status, phase, gN, gRec, gPress>>
    /\ UNCHANGED <<boot, qt>>

\* the draw calls of one frame: each entry is the vertex data uploaded by
\* glBufferData and drawn by glDrawArrays(GL_LINE_STRIP, 0, size)
RenderPass ==
    /\ pc = "render"
    /\ draws' = DrawStrokes(g_strokes, 1) \o DrawCurrent(g_current)
    /\ ev' = "render"
    /\ pc' = "swap"
    /\ UNCHANGED <<g_win_w, g_win_h, g_mouse_down, g_strokes, g_current,
                   shouldClose, status, phase, gN, gRec, gPress>>
    /\ UNCHANGED <<boot, qt>>

\* SwapBuffers with a loop that does not test the should-close flag
SwapBuffers_Forever ==
    /\ pc = "swap"
    /\ draws' = <<>>
    /\ ev' = "swap"
    /\ pc' = "poll"
    /\ UNCHANGED <<g_win_w, g_win_h, g_mouse_down, g_strokes, g_current,
                   shouldClose, status, phase, gN, gRec, gPress>>
    /\ UNCHANGED <<boot, qt>>

\* glfwSwapBuffers ends the frame, then the loop condition is tested
SwapBuffers ==
    /\ pc = "swap"
    /\ draws' = <<>>
    /\ ev' = "swap"
    /\ pc' = (IF shouldClose THEN "cleanup" ELSE "poll")
    /\ UNCHANGED <<g_win_w, g_win_h, g_mouse_down, g_strokes, g_current,
                   shouldClose, status, phase, gN, gRec, gPress>>
    /\ UNCHANGED <<boot, qt>>

\* glDelete*, glfwTerminate, return 0
Cleanup ==
    /\ pc = "cleanup"
    /\ pc' = "exit"
    /\ status' = <<0>>
    /\ ev' = "cleanup"
    /\ UNCHANGED <<g_win_w, g_win_h, g_mouse_down, g_strokes, g_current,
                   shouldClose, draws, phase, gN, gRec, gPress, qt>>
    /\ UNCHANGED <<boot, qt>>

Next ==
    \/ \E b \in Buttons, a \in ButtonActions, c \in CursorPts :
           mouse_button_cb(b, a, c[1], c[2])
    \/ \E c \in CursorPts : cursor_pos_cb(c[1], c[2])
    \/ \E d \in Dims : framebuffer_size_cb(d[1], d[2])
    \/ \E esc \in BOOLEAN, c \in BOOLEAN : KeyboardHandling(esc, c)
    \/ RenderPass
    \/ SwapBuffers
    \/ Cleanup

Spec == Init /\ [][Next]_vars

(* ---- start-up of main() ---------------------------------------------- *)
\* the outcomes (vertex shader compiled, fragment shader compiled, program
\* linked) OpenGL can report: a program links only if both shaders compiled
ShaderOutcomes ==
    {o \in BOOLEAN \X BOOLEAN \X BOOLEAN : o[3] => (o[1] /\ o[2])}

\* the state at the entry of main(): nothing registered, nothing reported
InitBoot ==
    /\ g_win_w = InitW
    /\ g_win_h = InitH
    /\ g_mouse_down = FALSE
    /\ g_strokes = <<>>
    /\ g_current = <<>>
    /\ shouldClose = FALSE
    /\ pc = "glfwInit"
    /\ draws = <<>>
    /\ status = <<>>
    /\ ev = "init"
    /\ phase = "idle"
    /\ gN = 0
    /\ gRec = 0
    /\ gPress = <<>>
    /\ diag = <<>>
    /\ callbacks = FALSE
    /\ MainWindow_Constructed

\* std::cerr << msg; return -1;
Fatal(msg) ==
    /\ diag' = Append(diag, msg)
    /\ status' = <<-1>>
    /\ pc' = "exit"
    /\ ev' = "fatal"
    /\ UNCHANGED callbacks

\* a start-up step that succeeded and goes on at next
Proceed(next) ==
    /\ pc' = next
    /\ ev' = "boot"
    /\ UNCHANGED <<status, diag, callbacks>>

\* line 143: if (!glfwInit()) { cerr; return -1; }
GlfwInit(ok) ==
    /\ pc = "glfwInit"
    /\ IF ok THEN Proceed("createWindow") ELSE Fatal("Failed to init GLFW")
    /\ UNCHANGED <<g_win_w, g_win_h, g_mouse_down, g_strokes, g_current,
                   shouldClose, draws, phase, gN, gRec, gPress, qt>>

\* lines 146-152: glfwCreateWindow; if (!window) { cerr; glfwTerminate();
\* return -1; }
CreateWindow(ok) ==
    /\ pc = "createWindow"
    /\ IF ok THEN Proceed("loadGL") ELSE Fatal("Failed to create window")
    /\ UNCHANGED <<g_win_w, g_win_h, g_mouse_down, g_strokes, g_current,
                   shouldClose, draws, phase, gN, gRec, gPress, qt>>

\* LoadGL that reports the failure and carries on
LoadGL_NoReturn(ok) ==
    /\ pc = "loadGL"
    /\ pc' = "register"
    /\ ev' = "boot"
    /\ diag' = (IF ok THEN diag ELSE Append(diag, "Failed to initialize GLAD"))
    /\ UNCHANGED <<status, callbacks>>
    /\ UNCHANGED <<g_win_w, g_win_h, g_mouse_down, g_strokes, g_current,
                   shouldClose, draws, phase, gN, gRec, gPress, qt>>

\* lines 155-157: if (!gladLoadGLLoader(...)) { cerr; return -1; }
LoadGL(ok) ==
    /\ pc = "loadGL"
    /\ IF ok THEN Proceed("register") ELSE Fatal("Failed to initialize GLAD")
    /\ UNCHANGED <<g_win_w, g_win_h, g_mouse_down, g_strokes, g_current,
                   shouldClose, draws, phase, gN, gRec, gPress, qt>>

\* lines 160-162: glfwSetMouseButtonCallback, glfwSetCursorPosCallback,
\* glfwSetFramebufferSizeCallback
RegisterCallbacks ==
    /\ pc = "register"
    /\ callbacks' = TRUE
    /\ pc' = "program"
    /\ ev' = "boot"
    /\ UNCHANGED <<status, diag>>
    /\ UNCHANGED <<g_win_w, g_win_h, g_mouse_down, g_strokes, g_current,
                   shouldClose, draws, phase, gN, gRec, gPress, qt>>

\* GLuint compile_shader(type, src): a failed compilation is written to
\* std::cerr and the shader is returned all the same
compile_shader(log, ok) ==
    IF ok THEN log ELSE Append(log, "Shader compile error")

\* GLuint create_program(): both shaders are compiled, then the program is
\* linked; a failed link is written to std::cerr and the program returned
create_program(log, o) ==
    LET afterV == compile_shader(log, o[1])
        afterF == compile_shader(afterV, o[2])
    IN  IF o[3] THEN afterF ELSE Append(afterF, "Program link error")

\* CreateProgram that gives up when a shader or the program failed
CreateProgram_Abort(o) ==
    /\ pc = "program"
    /\ diag' = create_program(diag, o)
    /\ IF o[3]
       THEN pc' = "setup" /\ ev' = "boot" /\ UNCHANGED status
       ELSE pc' = "exit" /\ ev' = "fatal" /\ status' = <<-1>>
    /\ UNCHANGED callbacks
    /\ UNCHANGED <<g_win_w, g_win_h, g_mouse_down, g_strokes, g_current,
                   shouldClose, draws, phase, gN, gRec, gPress, qt>>

\* lines 165-166: GLuint program = create_program(); glGetUniformLocation
CreateProgram(o) ==
    /\ pc = "program"
    /\ diag' = create_program(diag, o)
    /\ pc' = "setup"
    /\ ev' = "boot"
    /\ UNCHANGED <<status, callbacks>>
    /\ UNCHANGED <<g_win_w, g_win_h, g_mouse_down, g_strokes, g_current,
                   shouldClose, draws, phase, gN, gRec, gPress, qt>>

\* lines 169-189: the VAO/VBO, blending, line width and clear colour are
\* set up and the loop is entered (the should-close flag is still clear)
SetupGL ==
    /\ pc = "setup"
    /\ pc' = (IF shouldClose THEN "cleanup" ELSE "poll")
    /\ ev' = "boot"
    /\ UNCHANGED <<status, diag, callbacks>>
    /\ UNCHANGED <<g_win_w, g_win_h, g_mouse_down, g_strokes, g_current,
                   shouldClose, draws, phase, gN, gRec, gPress, qt>>

\* the window system asks the window to close (close button): GLFW sets the
\* should-close flag while glfwPollEvents runs
CloseRequest ==
    /\ pc = "poll"
    /\ ~shouldClose
    /\ shouldClose' = TRUE
    /\ ev' = "close"
    /\ UNCHANGED <<g_win_w, g_win_h, g_mouse_down, g_strokes, g_current,
                   pc, draws, status, phase, gN, gRec, gPress, boot, qt>>

\* the inputs explored after a start-up from the entry of main()
BootCursorPts == {Origin, Far}
BootDims == {<<InitW, InitH>>, <<0, 0>>}

NextBoot ==
    \/ \E ok \in BOOLEAN : GlfwInit(ok)
    \/ \E ok \in BOOLEAN : CreateWindow(ok)
    \/ \E ok \in BOOLEAN : LoadGL(ok)
    \/ RegisterCallbacks
    \/ \E o \in ShaderOutcomes : CreateProgram(o)
    \/ SetupGL
    \/ \E b \in Buttons, a \in ButtonActions, c \in BootCursorPts :
           mouse_button_cb(b, a, c[1], c[2])
    \/ \E c \in BootCursorPts : cursor_pos_cb(c[1], c[2])
    \/ \E d \in BootDims : framebuffer_size_cb(d[1], d[2])
    \/ CloseRequest
    \/ \E esc \in BOOLEAN, c \in BOOLEAN : KeyboardHandling(esc, c)
    \/ RenderPass
    \/ SwapBuffers
    \/ Cleanup

SpecBoot == InitBoot /\ [][NextBoot]_vars

\* main() runs on one thread: once glfwPollEvents and the key tests of a
\* frame are done, the drawing calls, glfwSwapBuffers, the loop test and the
\* clean-up after the loop are straight-line code that runs to its end
SpecBootFair ==
    /\ SpecBoot
    /\ WF_vars(RenderPass)
    /\ WF_vars(SwapBuffers)
    /\ WF_vars(Cleanup)

(* ---- the Qt example ---------------------------------------------------- *)
\* the variables of the drawing program
gl == <<g_win_w, g_win_h, g_mouse_down, g_strokes, g_current,
        shouldClose, pc, draws, status, ev, phase, gN, gRec, gPress, boot>>

\* show(), raise(), activateWindow() on the SecondWindow w
ShowRaiseActivate(w) ==
    /\ qVisible' = qVisible \cup {w}
    /\ qTop' = w
    /\ qActive' = w
    /\ qCalls' = Append(qCalls, w)

\* openSecondWindow without the test of the pointer
openSecondWindow_AlwaysNew ==
    /\ qMainAlive
    /\ Len(qCalls) < MaxClicks
    /\ instances' = instances + 1
    /\ secondWindow' = <<instances + 1>>
    /\ ShowRaiseActivate(instances + 1)
    /\ UNCHANGED <<qMainAlive, gl>>

\* void MainWindow::openSecondWindow(), the slot of the button's clicked
\* signal: if (!secondWindow) secondWindow = new SecondWindow();
\* secondWindow->show(); ->raise(); ->activateWindow();
openSecondWindow ==
    /\ qMainAlive
    /\ Len(qCalls) < MaxClicks
    /\ IF secondWindow = <<>>
       THEN /\ instances' = instances + 1
            /\ secondWindow' = <<instances + 1>>
       ELSE UNCHANGED <<instances, secondWindow>>
    /\ ShowRaiseActivate(secondWindow'[1])
    /\ UNCHANGED <<qMainAlive, gl>>

\* the user closes the SecondWindow w: the constructor of SecondWindow sets
\* no delete-on-close attribute, so the widget is hidden and stays allocated
CloseSecond(w) ==
    /\ w \in qVisible
    /\ qVisible' = qVisible \ {w}
    /\ qTop' = (IF qTop # w THEN qTop ELSE IF qMainAlive THEN 0 ELSE -1)
    /\ qActive' = (IF qActive # w THEN qActive ELSE IF qMainAlive THEN 0 ELSE -1)
    /\ UNCHANGED <<secondWindow, instances, qMainAlive, qCalls, gl>>

\* the user brings the main window (with the button) back to the front
ActivateMain ==
    /\ qMainAlive
    /\ qTop # 0 \/ qActive # 0
    /\ qTop' = 0
    /\ qActive' = 0
    /\ UNCHANGED <<secondWindow, instances, qVisible, qMainAlive, qCalls, gl>>

\* MainWindow::~MainWindow(): delete ui; the SecondWindow is not deleted
MainWindow_Destroyed ==
    /\ qMainAlive
    /\ qMainAlive' = FALSE
    /\ qTop' = (IF qTop = 0 THEN -1 ELSE qTop)
    /\ qActive' = (IF qActive = 0 THEN -1 ELSE qActive)
    /\ UNCHANGED <<secondWindow, instances, qVisible, qCalls, gl>>

\* the drawing program is not running while the Qt example is explored
InitQt == InitBoot

NextQt ==
    \/ openSecondWindow
    \/ \E w \in qVisible : CloseSecond(w)
    \/ ActivateMain
    \/ MainWindow_Destroyed

SpecQt == InitQt /\ [][NextQt]_vars

TypeOK ==
    /\ ExactGrid
    /\ g_mouse_down \in BOOLEAN
    /\ pc \in {"glfwInit", "createWindow", "loadGL", "register", "program",
              "setup", "poll", "render", "swap", "cleanup", "exit"}
    /\ Stored <= MaxPts
    /\ gN \in 0..MaxMoves
(* ---- properties ------------------------------------------------------- *)
\* the squared distance of the points a and b exceeds 1e-6: for finite
\* points n / Scale^2 > 1 / 10^6 with n the exact squared distance in units
\* of 1/Scale^2; points with a NaN coordinate, or both infinite in the same
\* direction along some axis, have no distance, and other points with an
\* infinite coordinate are infinitely far apart
AxisDefined(u, v) == ~IsNaN(u) /\ ~IsNaN(v) /\ ~(IsInf(u) /\ IsInf(v) /\ u = v)
Apart(a, b) ==
    IF IsFin(a.x) /\ IsFin(a.y) /\ IsFin(b.x) /\ IsFin(b.y)
    THEN (a.x[2] - b.x[2]) * (a.x[2] - b.x[2])
           + (a.y[2] - b.y[2]) * (a.y[2] - b.y[2]) > (Scale * Scale) \div 1000000
    ELSE AxisDefined(a.x, b.x) /\ AxisDefined(a.y, b.y)

\* every pair of consecutive points of s from the k-th on is that far apart
SpacedFrom(s, k) == \A i \in k..(Len(s) - 1) : Apart(s[i + 1], s[i])

\* C1: a left press, N cursor moves and a left release, with no clear command
\* in between, add one stroke of between 1 and N+1 points to g_strokes, and
\* each consecutive pair of its points after the first pair is more than
\* 1e-6 apart (squared distance).
C1_GestureStroke ==
    [][(ev' = "release" /\ phase = "open") =>
          /\ Len(g_strokes') = Len(g_strokes) + 1
          /\ SubSeq(g_strokes', 1, Len(g_strokes)) = g_strokes
          /\ LET s == Last(g_strokes')
             IN  /\ Len(s) >= 1
                 /\ Len(s) <= gN + 1
                 /\ SpacedFrom(s, 2)]_vars

\* a three-point stroke was completed by a gesture of two moves
C1_Witness ==
    /\ ev = "release"
    /\ phase = "released"
    /\ gN = 2
    /\ g_strokes # <<>>
    /\ Len(Last(g_strokes)) = 3

\* C2: in every reachable state no stroke, completed or in progress, holds
\* two consecutive points whose squared distance is not above 1e-6.
C2_Spaced ==
    /\ \A k \in 1..Len(g_strokes) : SpacedFrom(g_strokes[k], 1)
    /\ SpacedFrom(g_current, 1)

\* a move was dropped for being too close to the last recorded point, next
\* to a completed stroke of several points
C2_Witness ==
    /\ ev = "move"
    /\ phase = "open"
    /\ gN > gRec
    /\ g_current # <<>>
    /\ \E k \in 1..Len(g_strokes) : Len(g_strokes[k]) >= 2

\* C3: a left release appends a non-empty g_current, unchanged, as the last
\* element of g_strokes, keeping the earlier strokes and their order, and
\* every left release leaves g_current empty.
C3_ReleaseMovesStroke ==
    [][ev' = "release" =>
          /\ g_current' = <<>>
          /\ g_current # <<>> => g_strokes' = Append(g_strokes, g_current)]_vars

\* a release appended a stroke behind a different earlier one
C3_Witness ==
    /\ ev = "release"
    /\ phase = "released"
    /\ Len(g_strokes) >= 2
    /\ g_strokes[1] # Last(g_strokes)
    /\ g_current = <<>>

\* C4: g_strokes never holds a stroke of zero points, and a left release
\* that finds g_current empty leaves g_strokes as it is.
C4_NoEmptyStroke ==
    /\ [](\A k \in 1..Len(g_strokes) : g_strokes[k] # <<>>)
    /\ [][(ev' = "release" /\ g_current = <<>>) => g_strokes' = g_strokes]_vars

\* press, clear command, release: nothing was added
C4_Witness ==
    /\ ev = "release"
    /\ phase = "released_cleared"
    /\ g_strokes = <<>>

\* C5: a left press followed by a left release with no point recorded by a
\* cursor move in between adds exactly the one-point stroke of the press
\* position to g_strokes, and no frame draws a stroke of fewer than two
\* points.
C5_SinglePoint ==
    /\ [][(ev' = "release" /\ phase = "open" /\ gRec = 0) =>
             (Len(gPress) = 1 /\ g_strokes' = Append(g_strokes, gPress))]_vars
    /\ [](\A k \in 1..Len(draws) : Len(draws[k]) >= 2)

\* a frame was rendered right after such a gesture: the one-point stroke is
\* in g_strokes and was not drawn
C5_Witness ==
    /\ pc = "swap"
    /\ phase = "released"
    /\ gRec = 0
    /\ g_strokes # <<>>
    /\ Last(g_strokes) = gPress
    /\ \A k \in 1..Len(draws) : draws[k] # gPress

\* C6: after the clear command g_strokes and g_current are both empty,
\* whatever they held and whether or not the button is held.
C6_Clear ==
    [][(\E esc \in BOOLEAN : KeyboardHandling(esc, TRUE)) =>
          (g_strokes' = <<>> /\ g_current' = <<>>)]_vars

\* the clear command ran in the middle of a gesture
C6_Witness ==
    /\ ev = "clear"
    /\ phase = "cleared"
    /\ g_mouse_down
    /\ g_strokes = <<>>
    /\ g_current = <<>>

\* C7: whatever the current viewport dimensions, wnd_to_ndc maps (0, 0) to
\* (-1, 1) and (g_win_w, g_win_h) to (1, -1).
C7_Corners ==
    /\ wnd_to_ndc(<<0, 1>>, <<0, 1>>) = Vec2(Fin(0 - Scale), Fin(Scale))
    /\ wnd_to_ndc(<<g_win_w, 1>>, <<g_win_h, 1>>) = Vec2(Fin(Scale), Fin(0 - Scale))

\* C8: a resize event stores the delivered width and height and leaves
\* every point of g_strokes and g_current and the g_mouse_down flag as they
\* were.
C8_Resize ==
    [][\A d \in Dims : framebuffer_size_cb(d[1], d[2]) =>
          /\ g_win_w' = d[1]
          /\ g_win_h' = d[2]
          /\ UNCHANGED <<g_strokes, g_current, g_mouse_down>>]_vars

\* the viewport was resized in the middle of a gesture, with a completed
\* stroke on the canvas
C8_Witness ==
    /\ ev = "resize"
    /\ <<g_win_w, g_win_h>> # <<InitW, InitH>>
    /\ g_mouse_down
    /\ Len(g_current) >= 2
    /\ g_strokes # <<>>

\* C9: the draw calls of a frame are the completed strokes of at least two
\* points, whole and in insertion order, followed by the in-progress stroke
\* if and only if it has at least two points.
AtLeastTwo(s) == Len(s) >= 2
C10_OnlyCallbacks ==
    [][(g_strokes' # g_strokes \/ g_current' # g_current) =>
          ev' \in {"press", "release", "move"}]_vars

\* C10, amended: g_strokes and g_current are changed only by the
\* mouse-button and cursor-position callbacks and by the clear command of
\* the main loop's keyboard handling; the render pass never changes them.
C10_OnlyInputAndClear ==
    [][/\ (g_strokes' # g_strokes \/ g_current' # g_current) =>
             ev' \in {"press", "release", "move", "clear"}
       /\ RenderPass => UNCHANGED <<g_strokes, g_current>>]_vars

\* a frame was rendered, with draw calls, while a stroke was in progress
C10_Witness ==
    /\ ev = "render"
    /\ g_strokes # <<>>
    /\ g_current # <<>>
    /\ draws # <<>>

\* C11: when the window cannot be created or the OpenGL functions cannot be
\* loaded, a diagnostic is written and main returns at once with a
\* non-zero status; the callbacks are not registered and the main loop is
\* never entered.
C11_FatalInit ==
    /\ [][(CreateWindow(FALSE) \/ LoadGL(FALSE)) =>
             /\ Len(diag') = Len(diag) + 1
             /\ pc' = "exit"
             /\ status' # <<>> /\ status'[1] # 0
             /\ ~callbacks']_vars
    /\ []((status # <<>> /\ status[1] # 0) =>
             /\ pc = "exit"
             /\ ~callbacks
             /\ diag # <<>>
             /\ ev = "fatal"
             /\ g_strokes = <<>> /\ g_current = <<>> /\ draws = <<>>)
    /\ [][pc = "exit" => pc' = "exit"]_vars

\* main has returned -1 because the OpenGL functions could not be loaded
C11_Witness ==
    /\ pc = "exit"
    /\ status = <<-1>>
    /\ diag = <<"Failed to initialize GLAD">>
    /\ ~callbacks

\* a message of compile_shader or create_program is on the diagnostic stream
ShaderFailed ==
    \E i \in 1..Len(diag) :
        diag[i] \in {"Shader compile error", "Program link error"}
Count(b) == IF b THEN 0 ELSE 1

\* C12: a shader that fails to compile and a program that fails to link are
\* each reported on the diagnostic stream, and main goes on: it enters the
\* main loop, where events and frames are handled as without the failure,
\* and it never returns a non-zero status.
C12_ShaderNonFatal ==
    /\ [][\A o \in ShaderOutcomes : CreateProgram(o) =>
             /\ Len(diag') = Len(diag) + Count(o[1]) + Count(o[2]) + Count(o[3])
             /\ (~o[1] \/ ~o[2]) =>
                   \E i \in 1..Len(diag') : diag'[i] = "Shader compile error"
             /\ ~o[3] => diag'[Len(diag')] = "Program link error"
             /\ pc' = "setup"
             /\ status' = <<>>]_vars
    /\ [][(ShaderFailed /\ pc = "setup") => pc' = "poll"]_vars
    /\ [](ShaderFailed =>
             /\ status \in {<<>>, <<0>>}
             /\ pc = "poll" =>
                   /\ ENABLED KeyboardHandling(FALSE, FALSE)
                   /\ ENABLED framebuffer_size_cb(InitW, InitH)
                   /\ ~g_mouse_down => ENABLED cursor_pos_cb(Origin[1], Origin[2])
                   /\ ENABLED mouse_button_cb(GLFW_MOUSE_BUTTON_LEFT, GLFW_RELEASE,
                                              Origin[1], Origin[2])
             /\ pc = "render" => ENABLED RenderPass
             /\ pc = "swap" =>
                   /\ ENABLED SwapBuffers
                   /\ draws = SelectSeq(g_strokes, AtLeastTwo)
                                \o SelectSeq(<<g_current>>, AtLeastTwo))

\* after a failed shader compilation a stroke was drawn in the main loop
C12_Witness ==
    /\ ShaderFailed
    /\ diag[1] = "Shader compile error"
    /\ pc = "swap"
    /\ g_strokes # <<>>
    /\ draws # <<>>

\* C13: after a left press, whatever g_current held before, g_current is the
\* one point that wnd_to_ndc makes of the cursor position under the current
\* viewport size, g_mouse_down is set and g_strokes is as it was.
C13_Press ==
    [][\A c \in CursorPts :
          mouse_button_cb(GLFW_MOUSE_BUTTON_LEFT, GLFW_PRESS, c[1], c[2]) =>
             /\ g_current' = <<wnd_to_ndc_in(c[1], c[2], g_win_w, g_win_h)>>
             /\ g_mouse_down' = TRUE
             /\ g_strokes' = g_strokes]_vars

\* a press after a resize, with a stroke on the canvas
C13_Witness ==
    /\ ev = "press"
    /\ <<g_win_w, g_win_h>> = <<InitW \div 2, InitH \div 2>>
    /\ g_strokes # <<>>
    /\ Len(g_current) = 1
    /\ g_current[1] # wnd_to_ndc_in(Origin[1], Origin[2], g_win_w, g_win_h)
    /\ g_mouse_down

\* C15: whenever g_mouse_down is false g_current is empty; a non-empty
\* g_current exists only between a left press and the next left release.
C15_IdleEmpty ==
    /\ ~g_mouse_down => g_current = <<>>
    /\ g_current # <<>> => phase \in {"open", "cleared"}

\* the button was released after a gesture that recorded several points
C15_Witness ==
    /\ ev = "release"
    /\ ~g_mouse_down
    /\ g_current = <<>>
    /\ g_strokes # <<>>
    /\ Len(Last(g_strokes)) >= 2

\* C16: a cursor move while the left button is not held, and a press or
\* release of another button, change none of g_strokes, g_current,
\* g_mouse_down, g_win_w and g_win_h.
C16_Ignored ==
    [][\A c \in CursorPts :
          (\/ ~g_mouse_down /\ cursor_pos_cb(c[1], c[2])
           \/ \E a \in ButtonActions :
                 mouse_button_cb(GLFW_MOUSE_BUTTON_RIGHT, a, c[1], c[2]))
          => UNCHANGED <<g_strokes, g_current, g_mouse_down, g_win_w, g_win_h>>]_vars

\* the cursor moved over a canvas with a stroke while no button was held
C16_Witness ==
    /\ ev = "move"
    /\ ~g_mouse_down
    /\ g_strokes # <<>>
    /\ g_current = <<>>

\* C14: a frame that sees ESC pressed sets the should-close flag; the flag
\* stays set, the frame is rendered and swapped, no further frame starts,
\* and the program cleans up and ends with status 0.  The flag is set only
\* by ESC or by a close request, and the loop is left only with the flag set.
C14_EscExit ==
    /\ [][\A c \in BOOLEAN :
             KeyboardHandling(TRUE, c) => shouldClose' /\ pc' = "render"]_vars
    /\ [][shouldClose => shouldClose']_vars
    /\ [][(shouldClose /\ pc # "poll") => pc' # "poll"]_vars
    /\ [][Cleanup => ev = "swap" /\ shouldClose /\ status' = <<0>>]_vars
    /\ (shouldClose /\ pc = "render") ~> (pc = "exit" /\ status = <<0>>)
    /\ [][(~shouldClose /\ shouldClose') =>
             \/ CloseRequest
             \/ \E c \in BOOLEAN : KeyboardHandling(TRUE, c)]_vars
    /\ []((pc = "cleanup" \/ status = <<0>>) => shouldClose)
    /\ []((pc = "exit" /\ shouldClose) => status = <<0>> /\ ev = "cleanup")

\* the program ended normally with strokes on the canvas
C14_Witness ==
    /\ pc = "exit"
    /\ status = <<0>>
    /\ shouldClose
    /\ ev = "cleanup"
    /\ g_strokes # <<>>

\* C17: however often openSecondWindow has run, at most one SecondWindow
\* has been constructed: the invocation that finds the pointer null
\* constructs one, every other constructs nothing and keeps the pointer, and
\* each invocation shows, raises and activates the object pointed to, which
\* is the same object for every invocation.
C17_OneSecondWindow ==
    /\ [](instances <= 1)
    /\ [](\A i \in 1..Len(qCalls) : qCalls[i] = qCalls[1])
    /\ [](qCalls # <<>> => secondWindow = <<qCalls[1]>>)
    /\ [][openSecondWindow =>
             /\ qCalls = <<>> => secondWindow = <<>> /\ instances' = 1
             /\ qCalls # <<>> =>
                   secondWindow' = secondWindow /\ instances' = instances
             /\ secondWindow' # <<>>
             /\ secondWindow'[1] \in qVisible'
             /\ qTop' = secondWindow'[1]
             /\ qActive' = secondWindow'[1]]_vars

\* the button was clicked again after the second window had been opened
\* and the main window brought back to the front
C17_Witness ==
    /\ Len(qCalls) >= 3
    /\ instances = 1
    /\ secondWindow = <<1>>
    /\ qVisible = {1}
    /\ qTop = 1
    /\ qActive = 1
    /\ qMainAlive
====
